---- MODULE Spec2Model ----
(***************************************************************************)
(* A model of core/block.go of go-nebulas: the Block aggregate, its        *)
(* builder stage (SetNonce, SetTimestamp, AddTransactions), chain linking  *)
(* (LinkParentBlock), sealing (Seal) and verification (Verify, VerifyHash, *)
(* VerifyStateRoot), with the hashing functions HashBlock and              *)
(* HashBlockStateRoot and the helpers rewardCoinbase and                   *)
(* executeTransactions.                                                    *)
(*                                                                         *)
(* Collaborators that block.go only calls (the state trie, the transaction *)
(* engine, the pool, the consensus backend) are modelled from their        *)
(* documented interface: a trie is a finite map from addresses to          *)
(* balances, its root hash is the map itself (an ideal, collision-free     *)
(* digest), a transaction moves value between two accounts or fails, the   *)
(* pool is the sequence of transactions it was given through Put.          *)
(***************************************************************************)
EXTENDS Integers, Sequences, FiniteSets, TLC

\* ------------------------------------------------------------------ bounds

\* Longest transaction list AddTransactions may build.
MaxTxs == 2
\* Runs of HashBlockStateRoot (each adds a reward, so balances grow).
MaxRuns == 2
\* Blocks NewBlock may construct in the chain specification.
MaxChainBlocks == 3

\* ------------------------------------------------------------- constants

BlockReward == 16

\* F applied to the value of x, x evaluated once.
Bind(x, F(_)) == CHOOSE v \in {F(y) : y \in {x}} : TRUE

\* The nil *Block.
NilBlock == 0
\* A Hash that was never assigned (a nil byte slice).
EmptyHash == <<>>

\* ------------------------------------------------------- trie collaborator

EmptyTrie == [k \in {} |-> 0]

\* The balance stored under k; a missing key reads as the zero Account.
TrieGet(trie, k) == IF k \in DOMAIN trie THEN trie[k] ELSE 0

TriePut(trie, k, v) ==
  [x \in (DOMAIN trie) \cup {k} |-> IF x = k THEN v ELSE trie[x]]

\* Root hash of a trie: injective in the trie's contents.
RootHash(trie) == <<"root", trie>>

\* Copy-on-write fork: the copy shares nothing mutable with its source.
TrieClone(trie) == trie

\* State tries a caller hands to NewBlock.
InitTries == {EmptyTrie, [k \in {"a"} |-> 1]}

\* ------------------------------------------------ transaction collaborator

\* Transactions are named by their hash, 1..4.
TxFrom(tx)  == CASE tx = 1 -> "a" [] tx = 2 -> "cb" [] tx = 3 -> "a" [] OTHER -> "b"
TxTo(tx)    == CASE tx = 1 -> "b" [] tx = 2 -> "a"  [] tx = 3 -> "b" [] OTHER -> "a"
TxValue(tx) == CASE tx = 1 -> 1   [] tx = 2 -> 16   [] tx = 3 -> 1   [] OTHER -> 1

TxHash(tx) == tx

\* tx.Verify(): the transaction's own validity (signature, structure).
TxVerify(tx) ==
  CASE tx = 3 -> "ErrInvalidTx3" [] tx = 4 -> "ErrInvalidTx4" [] OTHER -> "nil"

\* tx.Execute(stateTrie, txsTrie): moves value from sender to receiver and
\* records the transaction, or fails and changes nothing.
TxExecute(tx, stateTrie, txsTrie) ==
  IF TrieGet(stateTrie, TxFrom(tx)) < TxValue(tx)
  THEN [err |-> TRUE, stateTrie |-> stateTrie, txsTrie |-> txsTrie]
  ELSE LET s1 == TriePut(stateTrie, TxFrom(tx),
                         TrieGet(stateTrie, TxFrom(tx)) - TxValue(tx))
           s2 == TriePut(s1, TxTo(tx), TrieGet(s1, TxTo(tx)) + TxValue(tx))
       IN [err |-> FALSE, stateTrie |-> s2, txsTrie |-> txsTrie \cup {TxHash(tx)}]

\* Transactions the builder draws from in the lifecycle specification.
Txs == {1, 2}

\* Values SetNonce and SetTimestamp are called with; NewBlock starts a block
\* at nonce 0 and (the clock's) timestamp 0.
Nonces == {0, 1}
Timestamps == {0, 1}

\* ------------------------------------------------------------------ state

VARIABLES
  blocks,   \* the Block objects constructed so far, by identity 1..Len
  pool,     \* the shared TransactionPool: what Put was called with, in order
  last,     \* the last call: operation, receiver, argument, outcome
  hung,     \* TRUE once a call entered a loop that never exits
  runs      \* number of HashBlockStateRoot runs so far

vars == <<blocks, pool, last, hung, runs>>

BlockIds == DOMAIN blocks

Call(op, b, arg, ret) == [op |-> op, b |-> b, arg |-> arg, ret |-> ret]

\* NewBlock(chainID, coinbase, parentHash, nonce, stateTrie, txsTrie, txPool)
\* at the clock reading now.  stateTrie is a pointer: stateTrieAt names the
\* trie object it points to, stateTrie is what that object holds.
NewBlockValue(chainID, coinbase, parentHash, nonce, stateTrie, stateTrieAt, txsTrie, now) ==
  [ hash         |-> EmptyHash,
    parentHash   |-> parentHash,
    stateRoot    |-> EmptyHash,
    nonce        |-> nonce,
    coinbase     |-> coinbase,
    timestamp    |-> now,
    chainID      |-> chainID,
    transactions |-> <<>>,
    sealed       |-> FALSE,
    height       |-> 0,
    parenetBlock |-> NilBlock,
    stateTrie    |-> stateTrie,
    stateTrieAt  |-> stateTrieAt,
    txsTrie      |-> txsTrie ]

\* A builder constructs a block on no parent or on the hash of a block it
\* holds, over a trie object of its own.
NewBlockN(max, tries) ==
  /\ ~hung
  /\ Len(blocks) < max
  /\ \E parentHash \in {EmptyHash} \cup {blocks[p].hash : p \in BlockIds},
        stateTrie \in tries :
       /\ blocks' = Append(blocks,
                      NewBlockValue(1, "cb", parentHash, 0, stateTrie,
                                    Len(blocks) + 1, {}, 0))
       /\ last' = Call("NewBlock", Len(blocks) + 1, 0, "nil")
  /\ UNCHANGED <<pool, hung, runs>>

\* ---------------------------------------------------------------- mutators

\* SetNonce with the sealed check left out.
SetNonceOpUnchecked(blk, nonce) ==
  [panic |-> FALSE, blk |-> [blk EXCEPT !.nonce = nonce]]

\* Block.SetNonce: panics on a sealed block, else stores the nonce.
SetNonceOp(blk, nonce) ==
  IF blk.sealed
  THEN [panic |-> TRUE, blk |-> blk]
  ELSE [panic |-> FALSE, blk |-> [blk EXCEPT !.nonce = nonce]]

\* Block.SetTimestamp: panics on a sealed block, else stores the timestamp.
SetTimestampOp(blk, timestamp) ==
  IF blk.sealed
  THEN [panic |-> TRUE, blk |-> blk]
  ELSE [panic |-> FALSE, blk |-> [blk EXCEPT !.timestamp = timestamp]]

\* Block.AddTransactions: panics on a sealed block, else appends txs.
AddTransactionsOp(blk, txs) ==
  IF blk.sealed
  THEN [panic |-> TRUE, blk |-> blk]
  ELSE [panic |-> FALSE,
        blk |-> [blk EXCEPT !.transactions = blk.transactions \o txs]]

Outcome(panic) == IF panic THEN "panic" ELSE "nil"

SetNonceOn(receivers) ==
  /\ ~hung
  /\ \E b \in receivers, nonce \in Nonces :
       \E r \in {SetNonceOp(blocks[b], nonce)} :
          /\ blocks' = [blocks EXCEPT ![b] = r.blk]
          /\ last' = Call("SetNonce", b, 0, Outcome(r.panic))
  /\ UNCHANGED <<pool, hung, runs>>

SetTimestampOn(receivers) ==
  /\ ~hung
  /\ \E b \in receivers, timestamp \in Timestamps :
       \E r \in {SetTimestampOp(blocks[b], timestamp)} :
          /\ blocks' = [blocks EXCEPT ![b] = r.blk]
          /\ last' = Call("SetTimestamp", b, 0, Outcome(r.panic))
  /\ UNCHANGED <<pool, hung, runs>>

\* The non-empty sequences over S of length at most n.
SeqsUpTo(S, n) == UNION {[1..k -> S] : k \in 1..n}

\* The list is kept within max by the callers modelled; a call on a sealed
\* block is rejected whatever the list holds.
AddTransactionsOn(receivers, max, universe) ==
  /\ ~hung
  /\ \E b \in receivers, txs \in SeqsUpTo(universe, max) :
       /\ blocks[b].sealed \/ Len(blocks[b].transactions) + Len(txs) <= max
       /\ \E r \in {AddTransactionsOp(blocks[b], txs)} :
             /\ blocks' = [blocks EXCEPT ![b] = r.blk]
             /\ last' = Call("AddTransactions", b, 0, Outcome(r.panic))
  /\ UNCHANGED <<pool, hung, runs>>

\* ----------------------------------------------------------------- hashing

\* HashBlock: the digest of parentHash, nonce, coinbase, timestamp and the
\* transaction hashes in list order (an ideal digest: the tuple itself).
HashBlock(blk) ==
  <<blk.parentHash, blk.nonce, blk.coinbase, blk.timestamp,
    [i \in 1..Len(blk.transactions) |-> TxHash(blk.transactions[i])]>>

\* rewardCoinbase that does not read the stored account first.
rewardCoinbaseFromZero(blk) ==
  [blk EXCEPT !.stateTrie = TriePut(@, blk.coinbase, BlockReward)]

\* Block.rewardCoinbase: adds BlockReward to the coinbase account's balance.
rewardCoinbase(blk) ==
  [blk EXCEPT !.stateTrie =
     TriePut(@, blk.coinbase, TrieGet(@, blk.coinbase) + BlockReward)]

\* First loop of executeTransactions: runs every transaction in list order
\* and records the (0-based) index of each one that fails.
RECURSIVE ExecuteLoop(_, _, _, _, _)
ExecuteLoop(txs, idx, stateTrie, txsTrie, invalidTxs) ==
  IF idx >= Len(txs)
  THEN [stateTrie |-> stateTrie, txsTrie |-> txsTrie, invalidTxs |-> invalidTxs]
  ELSE Bind(TxExecute(txs[idx + 1], stateTrie, txsTrie),
            LAMBDA r :
              ExecuteLoop(txs, idx + 1, r.stateTrie, r.txsTrie,
                          IF r.err THEN Append(invalidTxs, idx) ELSE invalidTxs))

\* TransactionPool.Put
PoolPut(p, tx) == Append(p, tx)

\* txs[lo:hi] of a Go slice (0-based, hi exclusive).
Slice(txs, lo, hi) == SubSeq(txs, lo + 1, hi)

\* The second loop with Put placed after the early `continue` of the last
\* index: a transaction cut from the end of the list is not put back.
RECURSIVE RemoveLoopPutLate(_, _, _, _, _)
RemoveLoopPutLate(txs, lenOfTxs, invalidTxs, i, p) ==
  IF i < 0
  THEN [txs |-> txs, pool |-> p]
  ELSE LET idx  == invalidTxs[i + 1]
           rest == IF idx = lenOfTxs - 1 THEN Slice(txs, 0, idx)
                   ELSE IF idx = 0 THEN Slice(txs, 0, Len(txs))
                   ELSE Slice(txs, 0, idx) \o Slice(txs, idx + 1, Len(txs))
           put  == IF idx = lenOfTxs - 1 THEN p ELSE PoolPut(p, txs[idx + 1])
       IN Bind(<<rest, put>>,
               LAMBDA n : RemoveLoopPutLate(n[1], lenOfTxs, invalidTxs, i - 1, n[2]))

\* Second loop of executeTransactions: from the last invalid index to the
\* first, puts the transaction back to the pool and cuts it out of txs.
RECURSIVE RemoveLoop(_, _, _, _, _)
RemoveLoop(txs, lenOfTxs, invalidTxs, i, p) ==
  IF i < 0
  THEN [txs |-> txs, pool |-> p]
  ELSE LET idx  == invalidTxs[i + 1]
           rest == IF idx = lenOfTxs - 1 THEN Slice(txs, 0, idx)
                   ELSE IF idx = 0 THEN Slice(txs, 0, Len(txs))
                   ELSE Slice(txs, 0, idx) \o Slice(txs, idx + 1, Len(txs))
       IN Bind(<<rest, PoolPut(p, txs[idx + 1])>>,
               LAMBDA n : RemoveLoop(n[1], lenOfTxs, invalidTxs, i - 1, n[2]))

\* Block.executeTransactions
executeTransactions(blk, p) ==
  Bind(ExecuteLoop(blk.transactions, 0, blk.stateTrie, blk.txsTrie, <<>>),
    LAMBDA e :
      Bind(RemoveLoop(blk.transactions, Len(blk.transactions),
                      e.invalidTxs, Len(e.invalidTxs) - 1, p),
        LAMBDA r :
          [blk  |-> [blk EXCEPT !.stateTrie = e.stateTrie,
                                !.txsTrie = e.txsTrie,
                                !.transactions = r.txs],
           pool |-> r.pool]))

\* HashBlockStateRoot: reward, execute, then the root of the block's trie.
HashBlockStateRoot(blk, p) ==
  Bind(rewardCoinbase(blk),
    LAMBDA rewarded :
      Bind(executeTransactions(rewarded, p),
        LAMBDA x :
          [blk |-> x.blk, pool |-> x.pool, root |-> RootHash(x.blk.stateTrie)]))

\* The blocks after a call on block b left it as blk: what the call wrote
\* through blk's stateTrie pointer (stateTrie.Put, Transaction.Execute) is
\* seen by every block that holds the same trie object.
StoreBlock(bs, b, blk) ==
  [c \in DOMAIN bs |->
     IF c = b THEN blk
     ELSE IF bs[c].stateTrieAt = blk.stateTrieAt
     THEN [bs[c] EXCEPT !.stateTrie = blk.stateTrie]
     ELSE bs[c]]

\* -------------------------------------------------------------------- Seal

\* Seal with the sealed check left out.
SealOpUnchecked(blk, p) ==
  Bind(HashBlockStateRoot([blk EXCEPT !.hash = HashBlock(blk)], p),
    LAMBDA r :
      [blk  |-> [r.blk EXCEPT !.stateRoot = r.root, !.sealed = TRUE],
       pool |-> r.pool,
       ran  |-> TRUE])

\* Block.Seal: nothing on a sealed block; else hash, then state root, then
\* the flag.
SealOp(blk, p) ==
  IF blk.sealed
  THEN [blk |-> blk, pool |-> p, ran |-> FALSE]
  ELSE Bind(HashBlockStateRoot([blk EXCEPT !.hash = HashBlock(blk)], p),
         LAMBDA r :
           [blk  |-> [r.blk EXCEPT !.stateRoot = r.root, !.sealed = TRUE],
            pool |-> r.pool,
            ran  |-> TRUE])

SealOn(receivers) ==
  /\ ~hung
  /\ \E b \in receivers :
       /\ blocks[b].sealed \/ runs < MaxRuns
       /\ \E r \in {SealOp(blocks[b], pool)} :
             /\ blocks' = StoreBlock(blocks, b, r.blk)
             /\ pool' = r.pool
             /\ runs' = IF r.ran THEN runs + 1 ELSE runs
             /\ last' = Call("Seal", b, 0, IF r.ran THEN "sealed" ELSE "nop")
  /\ UNCHANGED hung

\* ------------------------------------------------------------ verification

\* Outcomes of bc.ConsensusHandler().VerifyBlock(block).
ConsensusResults == {"nil", "ErrConsensus"}

\* The loop over block.transactions in VerifyHash: the first error.
RECURSIVE VerifyTxs(_, _)
VerifyTxs(txs, i) ==
  IF i > Len(txs) THEN "nil"
  ELSE IF TxVerify(txs[i]) # "nil" THEN TxVerify(txs[i])
  ELSE VerifyTxs(txs, i + 1)

\* VerifyHash that compares the hash before it asks the consensus backend.
VerifyHashOpHashFirst(blk, consensus) ==
  IF HashBlock(blk) # blk.hash THEN "ErrInvalidBlockHash"
  ELSE IF consensus # "nil" THEN consensus
  ELSE VerifyTxs(blk.transactions, 1)

\* Block.VerifyHash, given the consensus backend's answer.
VerifyHashOp(blk, consensus) ==
  IF consensus # "nil" THEN consensus
  ELSE IF HashBlock(blk) # blk.hash THEN "ErrInvalidBlockHash"
  ELSE VerifyTxs(blk.transactions, 1)

\* VerifyStateRoot that stores the root it computed in the header.
VerifyStateRootOpStoring(blk, p) ==
  Bind(HashBlockStateRoot(blk, p),
    LAMBDA r :
      [blk  |-> [r.blk EXCEPT !.stateRoot = r.root],
       pool |-> r.pool,
       err  |-> IF r.root # blk.stateRoot
                THEN "ErrInvalidBlockStateRoot" ELSE "nil",
       ran  |-> TRUE])

\* Block.VerifyStateRoot
VerifyStateRootOp(blk, p) ==
  Bind(HashBlockStateRoot(blk, p),
    LAMBDA r :
      [blk  |-> r.blk,
       pool |-> r.pool,
       err  |-> IF r.root # blk.stateRoot
                THEN "ErrInvalidBlockStateRoot" ELSE "nil",
       ran  |-> TRUE])

\* Verify that runs both checks and then reports the first error.
VerifyOpBothChecks(blk, p, consensus) ==
  Bind(VerifyHashOp(blk, consensus),
    LAMBDA e :
      Bind(VerifyStateRootOp(blk, p),
        LAMBDA r :
          IF e # "nil"
          THEN [blk |-> r.blk, pool |-> r.pool, err |-> e, ran |-> TRUE]
          ELSE r))

\* Block.Verify: VerifyHash, and VerifyStateRoot when that found no error.
VerifyOp(blk, p, consensus) ==
  Bind(VerifyHashOp(blk, consensus),
    LAMBDA e :
      IF e # "nil"
      THEN [blk |-> blk, pool |-> p, err |-> e, ran |-> FALSE]
      ELSE VerifyStateRootOp(blk, p))

VerifyHashOn(receivers) ==
  /\ ~hung
  /\ \E b \in receivers, consensus \in ConsensusResults :
       last' = Call("VerifyHash", b, consensus, VerifyHashOp(blocks[b], consensus))
  /\ UNCHANGED <<blocks, pool, hung, runs>>

VerifyStateRootOn(receivers) ==
  /\ ~hung
  /\ runs < MaxRuns
  /\ \E b \in receivers :
       \E r \in {VerifyStateRootOp(blocks[b], pool)} :
          /\ blocks' = StoreBlock(blocks, b, r.blk)
          /\ pool' = r.pool
          /\ last' = Call("VerifyStateRoot", b, 0, r.err)
  /\ runs' = runs + 1
  /\ UNCHANGED hung

VerifyOn(receivers) ==
  /\ ~hung
  /\ \E b \in receivers, consensus \in ConsensusResults :
       \E r \in {VerifyOp(blocks[b], pool, consensus)} :
          /\ r.ran => runs < MaxRuns
          /\ blocks' = StoreBlock(blocks, b, r.blk)
          /\ pool' = r.pool
          /\ runs' = IF r.ran THEN runs + 1 ELSE runs
          /\ last' = Call("Verify", b, consensus, r.err)
  /\ UNCHANGED hung

\* ----------------------------------------------------------------- linking

\* First loop of LinkParentBlock: from ancestor up the parenetBlock links,
\* counting depth, until a block of positive height or the end of the chain.
\* The loop has no other exit: once it has visited more blocks than exist
\* without finding a positive height it is on a cycle of height-0 blocks
\* and never returns.
RECURSIVE HeightWalk(_, _, _, _)
HeightWalk(bs, ancestor, depth, ancestorHeight) ==
  IF ancestor = NilBlock
  THEN [depth |-> depth, ancestorHeight |-> ancestorHeight, diverges |-> FALSE]
  ELSE IF depth > Len(bs)
  THEN [depth |-> depth, ancestorHeight |-> ancestorHeight, diverges |-> TRUE]
  ELSE IF bs[ancestor].height > 0
  THEN [depth |-> depth + 1, ancestorHeight |-> bs[ancestor].height,
        diverges |-> FALSE]
  ELSE HeightWalk(bs, bs[ancestor].parenetBlock, depth + 1, bs[ancestor].height)

\* The second loop with the height assigned before depth is decremented.
RECURSIVE HeightAssignBeforeDecrement(_, _, _, _)
HeightAssignBeforeDecrement(bs, ancestor, depth, ancestorHeight) ==
  IF ancestor = NilBlock \/ depth <= 1
  THEN bs
  ELSE Bind([bs EXCEPT ![ancestor].height = ancestorHeight + depth],
         LAMBDA n :
           HeightAssignBeforeDecrement(n, bs[ancestor].parenetBlock, depth - 1,
                                       ancestorHeight))

\* Second loop of LinkParentBlock: assigns ancestorHeight + depth down the
\* same links while depth > 1.
RECURSIVE HeightAssign(_, _, _, _)
HeightAssign(bs, ancestor, depth, ancestorHeight) ==
  IF ancestor = NilBlock \/ depth <= 1
  THEN bs
  ELSE Bind([bs EXCEPT ![ancestor].height = ancestorHeight + (depth - 1)],
         LAMBDA n :
           HeightAssign(n, bs[ancestor].parenetBlock, depth - 1, ancestorHeight))

\* LinkParentBlock with the trie cloned before the hashes are compared.
LinkParentBlockOpCloneFirst(bs, b, p) ==
  Bind([bs EXCEPT ![b].stateTrie = TrieClone(bs[p].stateTrie),
                  ![b].stateTrieAt = b],
    LAMBDA b0 :
      IF bs[b].parentHash # bs[p].hash
      THEN [blocks |-> b0, ret |-> "false"]
      ELSE Bind([b0 EXCEPT ![b].parenetBlock = p],
             LAMBDA b1 :
               Bind(HeightWalk(b1, b, 0, 0),
                 LAMBDA w :
                   IF w.diverges
                   THEN [blocks |-> b1, ret |-> "diverges"]
                   ELSE [blocks |-> HeightAssign(b1, b, w.depth, w.ancestorHeight),
                         ret |-> "true"])))

\* LinkParentBlock that takes the parent's trie pointer instead of a clone.
LinkParentBlockOpShareTrie(bs, b, p) ==
  IF bs[b].parentHash # bs[p].hash
  THEN [blocks |-> bs, ret |-> "false"]
  ELSE Bind([bs EXCEPT ![b].stateTrie = bs[p].stateTrie,
                        ![b].stateTrieAt = bs[p].stateTrieAt,
                        ![b].parenetBlock = p],
         LAMBDA b1 :
           Bind(HeightWalk(b1, b, 0, 0),
             LAMBDA w :
               IF w.diverges
               THEN [blocks |-> b1, ret |-> "diverges"]
               ELSE [blocks |-> HeightAssign(b1, b, w.depth, w.ancestorHeight),
                     ret |-> "true"]))

\* Block.LinkParentBlock(parentBlock) on block b with parent p.  The clone is
\* a new trie object, held by b alone and named after it.
LinkParentBlockOp(bs, b, p) ==
  IF bs[b].parentHash # bs[p].hash
  THEN [blocks |-> bs, ret |-> "false"]
  ELSE Bind([bs EXCEPT ![b].stateTrie = TrieClone(bs[p].stateTrie),
                        ![b].stateTrieAt = b,
                        ![b].parenetBlock = p],
         LAMBDA b1 :
           Bind(HeightWalk(b1, b, 0, 0),
             LAMBDA w :
               IF w.diverges
               THEN [blocks |-> b1, ret |-> "diverges"]
               ELSE [blocks |-> HeightAssign(b1, b, w.depth, w.ancestorHeight),
                     ret |-> "true"]))

\* A LinkParentBlock call on one of receivers, with any block as the parent.
LinkParentBlockOn(receivers) ==
  /\ ~hung
  /\ \E b \in receivers, p \in BlockIds :
       \E r \in {LinkParentBlockOp(blocks, b, p)} :
          /\ blocks' = r.blocks
          /\ hung' = (r.ret = "diverges")
          /\ last' = Call("LinkParentBlock", b, p, r.ret)
  /\ UNCHANGED <<pool, runs>>

LinkParentBlock == LinkParentBlockOn(BlockIds)

\* ---------------------------------------------------------- specifications

\* A genesis block: built on no parent over a caller's trie, then sealed.
Genesis(stateTrie) ==
  SealOp(NewBlockValue(1, "cb", EmptyHash, 0, stateTrie, 1, {}, 0), <<>>).blk

\* The lifecycle of one block over its parent.  Block 1 is the chain's
\* sealed genesis; block 2 was just constructed on the genesis's hash.  The
\* builder, Seal and the verifier work on block 2; LinkParentBlock is called
\* on every pair.
Subject == {2}

Init ==
  /\ \E genesis \in {Genesis(g) : g \in InitTries} :
       blocks = <<genesis,
                  NewBlockValue(1, "cb", genesis.hash, 0, EmptyTrie, 2, {}, 0)>>
  /\ pool = <<>>
  /\ last = Call("NewBlock", 2, 0, "nil")
  /\ hung = FALSE
  /\ runs = 0

AddTransactions == AddTransactionsOn(Subject, MaxTxs, Txs)
Seal == SealOn(Subject)
VerifyHash == VerifyHashOn(Subject)
VerifyStateRoot == VerifyStateRootOn(Subject)
Verify == VerifyOn(Subject)

Next ==
  \/ AddTransactions
  \/ LinkParentBlock
  \/ Seal
  \/ VerifyHash
  \/ VerifyStateRoot
  \/ Verify

Spec == Init /\ [][Next]_vars

\* The builder stage of block 2 and its end: the three mutators, linking and
\* Seal, from the same initial states.
SetNonce == SetNonceOn(Subject)
SetTimestamp == SetTimestampOn(Subject)
BuilderAddTransactions == AddTransactionsOn(Subject, MaxTxs, Txs)
BuilderLinkParentBlock == LinkParentBlock
BuilderSeal == SealOn(Subject)

NextBuilder ==
  \/ SetNonce
  \/ SetTimestamp
  \/ BuilderAddTransactions
  \/ BuilderLinkParentBlock
  \/ BuilderSeal

SpecBuilder == Init /\ [][NextBuilder]_vars

\* Verification of block 2 when its list can hold transactions that are
\* not valid: transactions 3 and 4 fail their own Verify, transaction 1
\* passes it.
VerifierTxs == {1, 3, 4}

VerifierAddTransactions == AddTransactionsOn(Subject, MaxTxs, VerifierTxs)
VerifierLinkParentBlock == LinkParentBlock
VerifierSeal == SealOn(Subject)
VerifierVerifyHash == VerifyHashOn(Subject)
VerifierVerify == VerifyOn(Subject)

NextVerifier ==
  \/ VerifierAddTransactions
  \/ VerifierLinkParentBlock
  \/ VerifierSeal
  \/ VerifierVerifyHash
  \/ VerifierVerify

SpecVerifier == Init /\ [][NextVerifier]_vars

\* Two blocks built on the same sealed genesis, each over a trie object of
\* its own: block 2 is given transactions, and blocks 2 and 3 are linked,
\* sealed and checked in any interleaving.
Siblings == {2, 3}

InitSiblings ==
  /\ \E genesis \in {Genesis(g) : g \in InitTries} :
       blocks = <<genesis,
                  NewBlockValue(1, "cb", genesis.hash, 0, EmptyTrie, 2, {}, 0),
                  NewBlockValue(1, "cb", genesis.hash, 0, EmptyTrie, 3, {}, 0)>>
  /\ pool = <<>>
  /\ last = Call("NewBlock", 3, 0, "nil")
  /\ hung = FALSE
  /\ runs = 0

SiblingAddTransactions == AddTransactionsOn(Subject, MaxTxs, Txs)
SiblingLinkParentBlock == LinkParentBlockOn(Siblings)
SiblingSeal == SealOn(Siblings)
SiblingVerifyStateRoot == VerifyStateRootOn(Siblings)

NextSiblings ==
  \/ SiblingAddTransactions
  \/ SiblingLinkParentBlock
  \/ SiblingSeal
  \/ SiblingVerifyStateRoot

SpecSiblings == InitSiblings /\ [][NextSiblings]_vars

\* Chains of blocks without transactions: blocks are constructed on no
\* parent or on the hash of an earlier block, sealed, and linked in any
\* order and to any block, the block itself included.
InitChain ==
  /\ blocks = <<>>
  /\ pool = <<>>
  /\ last = Call("init", 0, 0, "nil")
  /\ hung = FALSE
  /\ runs = 0

NewBlock == NewBlockN(MaxChainBlocks, {EmptyTrie})
\* Only the first block of the chain is sealed: later blocks are built on its
\* hash or on no parent.
ChainSeal == SealOn(BlockIds \cap {1})
ChainLinkParentBlock == LinkParentBlock

NextChain ==
  \/ NewBlock
  \/ ChainSeal
  \/ ChainLinkParentBlock

SpecChain == InitChain /\ [][NextChain]_vars

\* ------------------------------------------------------------- properties

\* The last call ran HashBlockStateRoot: a Seal that sealed, a
\* VerifyStateRoot, or a Verify that got past VerifyHash.
RanStateRoot(call) ==
  \/ call.op = "Seal" /\ call.ret = "sealed"
  \/ call.op = "VerifyStateRoot"
  \/ call.op = "Verify" /\ call.ret \in {"nil", "ErrInvalidBlockStateRoot"}

Range(seq) == {seq[i] : i \in 1..Len(seq)}

Occurrences(seq, x) == Cardinality({i \in 1..Len(seq) : seq[i] = x})

\* The elements of seq at the (1-based) positions in keep, in order.
RECURSIVE Subsequence(_, _, _)
Subsequence(seq, keep, i) ==
  IF i > Len(seq) THEN <<>>
  ELSE (IF i \in keep THEN <<seq[i]>> ELSE <<>>) \o Subsequence(seq, keep, i + 1)

\* The 0-based indices of blk's transactions that fail in one pass of
\* HashBlockStateRoot over blk.
FailedIn(blk) ==
  Range(ExecuteLoop(blk.transactions, 0, rewardCoinbase(blk).stateTrie,
                    blk.txsTrie, <<>>).invalidTxs)

\* a is b or is reached from b along parenetBlock links.
RECURSIVE Reaches(_, _, _, _)
Reaches(bs, b, a, fuel) ==
  IF b = NilBlock \/ fuel = 0 THEN FALSE
  ELSE IF b = a THEN TRUE
  ELSE Reaches(bs, bs[b].parenetBlock, a, fuel - 1)

\* C1: a linked, unsealed block that is sealed and then, with nothing in
\* between, checked by VerifyStateRoot passes the check.
C1_SealThenVerifyStateRoot ==
  [][ ( /\ last.op = "Seal" /\ last.ret = "sealed"
        /\ blocks[last.b].parenetBlock # NilBlock
        /\ last'.op = "VerifyStateRoot" /\ last'.b = last.b )
      => last'.ret = "nil" ]_vars

\* C2: when Seal has sealed a block, HashBlock over the block as it now is
\* gives the stored header hash.
C2_SealedHashReproduces ==
  (last.op = "Seal" /\ last.ret = "sealed")
    => HashBlock(blocks[last.b]) = blocks[last.b].hash

\* C3: a pass of executeTransactions leaves exactly the transactions that
\* executed successfully, in their original order.
C3_SurvivorsAreTheSuccessful ==
  [][ RanStateRoot(last')
      => blocks'[last'.b].transactions =
           Subsequence(blocks[last'.b].transactions,
                       {i \in 1..Len(blocks[last'.b].transactions) :
                          (i - 1) \notin FailedIn(blocks[last'.b])}, 1) ]_vars

\* C4: a pass of executeTransactions puts to the pool the transactions that
\* failed in the pass, each once, and nothing else.
C4_PoolReceivesTheFailed ==
  [][ RanStateRoot(last')
      => LET txs    == blocks[last'.b].transactions
             failed == FailedIn(blocks[last'.b])
             put    == SubSeq(pool', Len(pool) + 1, Len(pool'))
         IN /\ SubSeq(pool', 1, Len(pool)) = pool
            /\ Len(put) = Cardinality(failed)
            /\ \A tx \in Range(txs) \cup Range(put) :
                 Occurrences(put, tx) =
                   Cardinality({i \in failed : txs[i + 1] = tx}) ]_vars

\* One pass so far, over a list of two: one transaction failed and is in the
\* pool, the other executed and is recorded.
C4_Witness ==
  /\ runs = 1 /\ RanStateRoot(last)
  /\ Len(pool) = 1
  /\ blocks[last.b].txsTrie # {}
  /\ pool[1] \notin blocks[last.b].txsTrie

\* C5: a LinkParentBlock call on a block and a parent with matching hashes
\* returns true and leaves the block one above its parent, also when the
\* block was linked before.  Stated for the pairs a chain is built from: the
\* parent is another block and not a descendant of the block.
C5_LinkedHeightIsParentPlusOne ==
  ( /\ last.op = "LinkParentBlock"
    /\ blocks[last.b].parentHash = blocks[last.arg].hash
    /\ ~Reaches(blocks, last.arg, last.b, Len(blocks)) )
    => /\ last.ret = "true"
       /\ blocks[last.b].height = blocks[last.arg].height + 1

\* C6: a LinkParentBlock call on a block and a parent whose hashes differ
\* returns false and changes no field of any block.
C6_MismatchChangesNothing ==
  [][ ( /\ last'.op = "LinkParentBlock"
        /\ blocks[last'.b].parentHash # blocks[last'.arg].hash )
      => (last'.ret = "false" /\ blocks' = blocks /\ pool' = pool) ]_vars

\* A rejected link whose parent holds another trie than the block.
C6_Witness ==
  /\ last.op = "LinkParentBlock" /\ last.ret = "false"
  /\ last.b # last.arg
  /\ blocks[last.b].stateTrie # blocks[last.arg].stateTrie

\* C7: on a sealed block SetNonce, SetTimestamp and AddTransactions panic
\* and leave nonce, timestamp and the transaction list as they were.
C7_SealedRejectsMutators ==
  [][ ( /\ last'.op \in {"SetNonce", "SetTimestamp", "AddTransactions"}
        /\ blocks[last'.b].sealed )
      => /\ last'.ret = "panic"
         /\ blocks'[last'.b].nonce = blocks[last'.b].nonce
         /\ blocks'[last'.b].timestamp = blocks[last'.b].timestamp
         /\ blocks'[last'.b].transactions = blocks[last'.b].transactions ]_vars

\* A mutator was called on a sealed block that holds transactions.
C7_Witness ==
  /\ last.op \in {"SetNonce", "SetTimestamp", "AddTransactions"}
  /\ last.ret = "panic"
  /\ blocks[last.b].sealed
  /\ blocks[last.b].transactions # <<>>

\* C8: Seal on a sealed block changes no block and not the pool.
C8_SecondSealChangesNothing ==
  [][ (last'.op = "Seal" /\ blocks[last'.b].sealed)
      => (blocks' = blocks /\ pool' = pool /\ last'.ret = "nop") ]_vars

\* Seal was called on a sealed block whose sealing had returned a
\* transaction to the pool.
C8_Witness ==
  /\ last.op = "Seal" /\ last.ret = "nop"
  /\ blocks[last.b].sealed
  /\ pool # <<>>

\* C9: no call changes a header field or the transaction list of a block
\* that is sealed.
C9_SealedBlockIsImmutable ==
  [][ \A b \in BlockIds :
        blocks[b].sealed =>
          /\ blocks'[b].hash = blocks[b].hash
          /\ blocks'[b].parentHash = blocks[b].parentHash
          /\ blocks'[b].stateRoot = blocks[b].stateRoot
          /\ blocks'[b].nonce = blocks[b].nonce
          /\ blocks'[b].coinbase = blocks[b].coinbase
          /\ blocks'[b].timestamp = blocks[b].timestamp
          /\ blocks'[b].chainID = blocks[b].chainID
          /\ blocks'[b].transactions = blocks[b].transactions ]_vars

\* C10: Verify and VerifyStateRoot on a sealed block leave its stateTrie,
\* its transaction list and the pool as they were.
C10_VerifyMutatesNothing ==
  [][ ( /\ last'.op \in {"Verify", "VerifyStateRoot"}
        /\ blocks[last'.b].sealed )
      => /\ blocks'[last'.b].stateTrie = blocks[last'.b].stateTrie
         /\ blocks'[last'.b].transactions = blocks[last'.b].transactions
         /\ pool' = pool ]_vars

\* The block's coinbase account is the sender or the receiver of tx.
TouchesCoinbase(blk, tx) == blk.coinbase \in {TxFrom(tx), TxTo(tx)}

\* C11: when a linked block on which HashBlockStateRoot never ran is sealed,
\* and none of its transactions touches the coinbase account, the coinbase
\* balance in its stateTrie is the parent's coinbase balance plus BlockReward,
\* and the parent's stateTrie is as it was.
C11_SealRewardsCoinbaseOnce ==
  [][ ( /\ last'.op = "Seal" /\ last'.ret = "sealed"
        /\ runs = 0
        /\ blocks[last'.b].parenetBlock # NilBlock
        /\ \A i \in 1..Len(blocks[last'.b].transactions) :
              ~TouchesCoinbase(blocks[last'.b], blocks[last'.b].transactions[i]) )
      => LET b == last'.b
             p == blocks[b].parenetBlock
         IN /\ TrieGet(blocks'[b].stateTrie, blocks[b].coinbase) =
                 TrieGet(blocks[p].stateTrie, blocks[b].coinbase) + BlockReward
            /\ blocks'[p].stateTrie = blocks[p].stateTrie ]_vars

\* A linked block was sealed over a parent whose coinbase account already
\* held a reward, with a transaction between two other accounts executed.
C11_Witness ==
  /\ last.op = "Seal" /\ last.ret = "sealed" /\ runs = 1
  /\ blocks[last.b].parenetBlock # NilBlock
  /\ blocks[last.b].transactions = <<1>>
  /\ 1 \in blocks[last.b].txsTrie
  /\ TrieGet(blocks[blocks[last.b].parenetBlock].stateTrie, "cb") = BlockReward
  /\ TrieGet(blocks[last.b].stateTrie, "cb") = 2 * BlockReward

\* C12: every block that has a parent is one above its parent, whatever the
\* order of the links.  Stated for the blocks that are not their own
\* ancestor.
C12_HeightIsParentHeightPlusOne ==
  \A b \in BlockIds :
    ( /\ blocks[b].parenetBlock # NilBlock
      /\ ~Reaches(blocks, blocks[b].parenetBlock, b, Len(blocks)) )
    => blocks[b].height = blocks[blocks[b].parenetBlock].height + 1

\* b's height is its distance in hops from the block with no parent that its
\* parenetBlock links lead to, and so is the height of each block on the way.
RECURSIVE Resolved(_, _, _)
Resolved(bs, b, fuel) ==
  IF bs[b].parenetBlock = NilBlock
  THEN bs[b].height = 0
  ELSE /\ fuel > 0
       /\ bs[b].height = bs[bs[b].parenetBlock].height + 1
       /\ Resolved(bs, bs[b].parenetBlock, fuel - 1)

\* C13: a chain linked ancestor-first has genesis at height 0 and the i-th
\* block at height i.  As the step of the induction over the links: when a
\* block never linked before is linked to a parent whose chain is resolved
\* and does not hold the block, the block's chain is resolved and no other
\* block's height has changed.
C13_AncestorFirstHeights ==
  [][ ( /\ last'.op = "LinkParentBlock" /\ last'.ret = "true"
        /\ blocks[last'.b].parenetBlock = NilBlock
        /\ blocks[last'.b].height = 0
        /\ Resolved(blocks, last'.arg, Len(blocks))
        /\ ~Reaches(blocks, last'.arg, last'.b, Len(blocks)) )
      => /\ Resolved(blocks', last'.b, Len(blocks))
         /\ blocks'[last'.b].height = blocks[last'.arg].height + 1
         /\ \A a \in BlockIds \ {last'.b} :
              blocks'[a].height = blocks[a].height ]_vars

\* The second block of a chain was just linked over the first, which had been
\* linked over a sealed genesis: heights 0, 1, 2.
C13_Witness ==
  /\ last.op = "LinkParentBlock" /\ last.ret = "true"
  /\ blocks[last.b].height = 2
  /\ blocks[last.arg].height = 1
  /\ blocks[last.arg].parenetBlock # NilBlock
  /\ blocks[blocks[last.arg].parenetBlock].sealed
  /\ Resolved(blocks, last.b, Len(blocks))

\* The state a block's reward and transactions, each applied once, make of
\* the trie contents given.
PostState(blk, trie) ==
  ExecuteLoop(blk.transactions, 0,
              TriePut(trie, blk.coinbase, TrieGet(trie, blk.coinbase) + BlockReward),
              {}, <<>>).stateTrie

\* C14: a block linked over the sealed parent it was built on holds in its
\* stateTrie the parent's state with the reward and its transactions applied
\* once when it is sealed, and the parent's state when it is not.
C14_StateTrieFollowsLifecycle ==
  \A b \in BlockIds :
    LET p == blocks[b].parenetBlock
    IN ( /\ p # NilBlock
         /\ blocks[p].sealed
         /\ blocks[b].parentHash = blocks[p].hash )
       => IF blocks[b].sealed
          THEN blocks[b].stateTrie = PostState(blocks[b], blocks[p].stateTrie)
          ELSE blocks[b].stateTrie = blocks[p].stateTrie

\* C15: header.hash and header.stateRoot change only in a Seal call on a
\* block that was not sealed, whose two fields were still unset; no call
\* changes either field of a sealed block.
C15_HashAndStateRootWrittenOnce ==
  [][ \A b \in BlockIds :
        ( \/ blocks'[b].hash # blocks[b].hash
          \/ blocks'[b].stateRoot # blocks[b].stateRoot )
        => /\ last'.op = "Seal" /\ last'.b = b /\ last'.ret = "sealed"
           /\ ~blocks[b].sealed
           /\ blocks[b].hash = EmptyHash
           /\ blocks[b].stateRoot = EmptyHash ]_vars

\* VerifyStateRoot computed, over a sealed block, another root than the
\* header holds, and the header still holds the root Seal stored.
C15_Witness ==
  /\ last.op = "VerifyStateRoot" /\ last.ret = "ErrInvalidBlockStateRoot"
  /\ blocks[last.b].sealed
  /\ blocks[last.b].stateRoot # EmptyHash
  /\ blocks[last.b].stateRoot # RootHash(blocks[last.b].stateTrie)

\* C16: a Verify call whose VerifyHash part finds an error returns that
\* error and changes no block and not the pool, HashBlockStateRoot not run;
\* only when VerifyHash finds none does the call run VerifyStateRoot and
\* return its result.
C16_VerifyShortCircuits ==
  [][ last'.op = "Verify"
      => LET e == VerifyHashOp(blocks[last'.b], last'.arg)
         IN IF e # "nil"
            THEN /\ last'.ret = e
                 /\ blocks' = blocks /\ pool' = pool /\ runs' = runs
            ELSE /\ runs' = runs + 1
                 /\ last'.ret = VerifyStateRootOp(blocks[last'.b], pool).err ]_vars

\* Verify returned a transaction's error for a sealed block whose hash
\* matches, and HashBlockStateRoot has run once, in Seal.
C16_Witness ==
  /\ last.op = "Verify" /\ last.arg = "nil"
  /\ last.ret \in {"ErrInvalidTx3", "ErrInvalidTx4"}
  /\ blocks[last.b].sealed
  /\ HashBlock(blocks[last.b]) = blocks[last.b].hash
  /\ runs = 1

\* The error of the first transaction of txs that fails its own Verify.
FirstInvalid(txs) ==
  LET bad == {i \in 1..Len(txs) : TxVerify(txs[i]) # "nil"}
  IN IF bad = {} THEN "nil"
     ELSE TxVerify(txs[CHOOSE i \in bad : \A j \in bad : i <= j])

\* C17: VerifyHash returns the consensus backend's error if it gives one,
\* else ErrInvalidBlockHash if the hash does not match, else the error of the
\* first invalid transaction in list order, else nil; it changes nothing.
C17_VerifyHashCheckOrder ==
  [][ last'.op = "VerifyHash"
      => LET blk == blocks[last'.b]
         IN /\ blocks' = blocks /\ pool' = pool
            /\ last'.ret =
                 IF last'.arg # "nil" THEN last'.arg
                 ELSE IF HashBlock(blk) # blk.hash THEN "ErrInvalidBlockHash"
                 ELSE FirstInvalid(blk.transactions) ]_vars

\* VerifyHash returned the consensus backend's rejection for a block whose
\* hash does not match and whose list holds two invalid transactions.
C17_Witness ==
  /\ last.op = "VerifyHash" /\ last.arg = "ErrConsensus"
  /\ last.ret = "ErrConsensus"
  /\ HashBlock(blocks[last.b]) # blocks[last.b].hash
  /\ blocks[last.b].transactions \in {<<3, 4>>, <<4, 3>>}

\* C18: a Seal or VerifyStateRoot call on a linked block leaves the
\* stateTrie of its parent and of every other block linked to that parent
\* as it was.
C18_SiblingTriesAreIsolated ==
  [][ ( /\ last'.op \in {"Seal", "VerifyStateRoot"}
        /\ blocks[last'.b].parenetBlock # NilBlock )
      => \A c \in BlockIds \ {last'.b} :
           ( \/ c = blocks[last'.b].parenetBlock
             \/ blocks[c].parenetBlock = blocks[last'.b].parenetBlock )
           => blocks'[c].stateTrie = blocks[c].stateTrie ]_vars

\* Both siblings are linked to the genesis; one was sealed, executing a
\* transaction, and then checked again, and the other still holds the
\* genesis's state.
C18_Witness ==
  /\ last.op = "VerifyStateRoot" /\ last.b = 2
  /\ blocks[2].parenetBlock = 1 /\ blocks[3].parenetBlock = 1
  /\ blocks[2].sealed /\ blocks[2].txsTrie # {}
  /\ blocks[3].stateTrie = blocks[1].stateTrie
  /\ blocks[2].stateTrie # blocks[1].stateTrie

\* C19: no block is its own ancestor: following parenetBlock from a block's
\* parent never leads back to the block.  Stated for the states in which
\* every call has returned.
C19_ParentChainIsAcyclic ==
  ~hung =>
    \A b \in BlockIds :
      blocks[b].parenetBlock # NilBlock
      => ~Reaches(blocks, blocks[b].parenetBlock, b, Len(blocks))

\* C20: every LinkParentBlock call returns, the walk over the ancestors
\* ending at a block of positive height or without a parent, and changes
\* the height of no block but the one it is called on.
C20_LinkParentBlockTerminates ==
  [][ last'.op = "LinkParentBlock"
      => /\ last'.ret \in {"true", "false"}
         /\ ~hung'
         /\ \A a \in BlockIds \ {last'.b} :
              blocks'[a].height = blocks[a].height ]_vars
====
